---------------------------- MODULE Spec2Model ----------------------------
(***************************************************************************)
(* Interrupt command lists of the HelenOS driver fragments: the HD-Audio   *)
(* driver (uspace/drv/audio/hdaudio/hdaudio.c), the msim keyboard          *)
(* (kbd/arch/mips32/src/kbd.c), the PC platform driver                     *)
(* (uspace/drv/rootpc/rootpc.c) and overlaps() of kernel macros.h.         *)
(*                                                                         *)
(* The kernel side (validation of a command list, the registry of          *)
(* interrupt lines, the interpreter) is not part of the fragments; it is   *)
(* written down here from sections 4.2, 4.3 and 4.5 of the specification.  *)
(***************************************************************************)
EXTENDS Integers, Sequences, FiniteSets, TLC

(***************************************************************************)
(* Bounds of the model.                                                    *)
(***************************************************************************)
\* Status-register values a device may show are 0..MaxRegVal.
MaxRegVal == 1
\* Width in bits of the words overlaps() is enumerated over.
WordBits == 3

(***************************************************************************)
(* Addresses.  uintptr_t is 32 bits wide on the builds the fragments       *)
(* belong to (mips32, ia32); an address is kept as the pair of its 16-bit  *)
(* halves <<high, low>>, and adding to it wraps modulo 2^32.               *)
(***************************************************************************)
Half == 2 ^ 16

NULL == <<0, 0>>

AddrAdd(a, n) ==
    LET s == a[2] + n
    IN  <<(a[1] + (s \div Half)) % Half, s % Half>>

AddrLt(a, b) == a[1] < b[1] \/ (a[1] = b[1] /\ a[2] < b[2])

AddrLe(a, b) == a = b \/ AddrLt(a, b)

(***************************************************************************)
(* Bitwise AND of two naturals.                                            *)
(***************************************************************************)
RECURSIVE BitAnd(_, _)
BitAnd(a, b) ==
    IF a = 0 \/ b = 0 THEN 0
    ELSE ((a % 2) * (b % 2)) + 2 * BitAnd(a \div 2, b \div 2)

\* BIT_V(type, n): the value with only bit n set.
BIT_V(n) == 2 ^ n

(***************************************************************************)
(* Register layout of the controller (spec/regs.h, not among the           *)
(* fragments): RIRBSTS lies at 5Dh, its interrupt flag is bit 0, and the   *)
(* register block fills the 8192-byte window the driver declares.          *)
(***************************************************************************)
rirbsts_offset == 93
rirbsts_intfl == 0
sizeof_hda_regs_t == 8192

\* Error codes, by name.
EOK == "EOK"
ENOMEM == "ENOMEM"
EINVAL == "EINVAL"
EIO == "EIO"
LineBusy == "LineBusy"
InvalidCommandList == "InvalidCommandList"

(***************************************************************************)
(* Command records.  Fields a C initializer leaves out are zero.           *)
(***************************************************************************)
Cmd(c, a, v, s, d) == [cmd |-> c, addr |-> a, value |-> v, srcarg |-> s, dstarg |-> d]

ReadCmds == {"CMD_PIO_READ_8", "CMD_MEM_READ_1"}
WriteCmds == {"CMD_PIO_WRITE_8"}
TerminalCmds == {"CMD_ACCEPT", "CMD_DECLINE"}


(***************************************************************************)
(* The machine: the HD-Audio controllers, the interrupt lines, and what    *)
(* the hardware-resource query can answer for a controller.                *)
(***************************************************************************)
HdaDevs == {"hda0", "hda1"}

kbd_irq == 2

\* Lines the hardware-resource query may name for a controller (PCI
\* interrupts); the keyboard's line belongs to the msim machine.
HdaLines == {5, 11}

Lines == {kbd_irq} \cup HdaLines

\* 0x00010000, 0xFEBF0000, and 0xFFFFC000 (a window that ends at 2^32).
Bases == {<<1, 0>>, <<65215, 0>>, <<65535, 49152>>}

Sizes == {sizeof_hda_regs_t \div 2, sizeof_hda_regs_t, 2 * sizeof_hda_regs_t}

RegVals == 0 .. MaxRegVal

Owners == HdaDevs \cup {"kbd"}

VARIABLES
    hw,                      \* per controller: register base and interrupt line
    rirbsts,                 \* per controller: the RIRBSTS register
    hdaudio_irq_pio_ranges,  \* the driver's global range array (one entry)
    hdaudio_irq_commands,    \* the driver's global command array
    hda,                     \* per controller: soft state and result of dev_add
    kbd,                     \* keyboard driver: has kbd_arch_init run, its result
    regcall,                 \* the last call of the registration interface
    irqs,                    \* the kernel's interrupt registrations
    unregistered,            \* registrations torn down so far
    exec,                    \* the interpreter's invocation, current or last
    rootpc,                  \* PC platform driver: result of rootpc_add_device
    ov                       \* arguments and result of a call of overlaps()

vars == <<hw, rirbsts, hdaudio_irq_pio_ranges, hdaudio_irq_commands, hda, kbd,
          regcall, irqs, unregistered, exec, rootpc, ov>>

drv_vars == <<hw, rirbsts, hdaudio_irq_pio_ranges, hdaudio_irq_commands, hda,
              kbd, regcall, irqs, unregistered, exec>>

(***************************************************************************)
(* hdaudio.c: the global range and command arrays as initialized.          *)
(***************************************************************************)
hdaudio_irq_pio_ranges_init == <<[base |-> NULL, size |-> 8192]>>

\* Variant: the PREDICATE compares against 0.
hdaudio_irq_commands_pred0 ==
    << Cmd("CMD_PIO_READ_8", NULL, 0, 0, 2),
       Cmd("CMD_AND", NULL, BIT_V(rirbsts_intfl), 2, 3),
       Cmd("CMD_PREDICATE", NULL, 0, 3, 0),
       Cmd("CMD_PIO_WRITE_8", NULL, BIT_V(rirbsts_intfl), 0, 0),
       Cmd("CMD_ACCEPT", NULL, 0, 0, 0) >>

\* Variant: source and destination slot of the AND exchanged.
hdaudio_irq_commands_swapped ==
    << Cmd("CMD_PIO_READ_8", NULL, 0, 0, 2),
       Cmd("CMD_AND", NULL, BIT_V(rirbsts_intfl), 3, 2),
       Cmd("CMD_PREDICATE", NULL, 2, 3, 0),
       Cmd("CMD_PIO_WRITE_8", NULL, BIT_V(rirbsts_intfl), 0, 0),
       Cmd("CMD_ACCEPT", NULL, 0, 0, 0) >>

hdaudio_irq_commands_init ==
    << Cmd("CMD_PIO_READ_8", NULL, 0, 0, 2),
       Cmd("CMD_AND", NULL, BIT_V(rirbsts_intfl), 2, 3),
       Cmd("CMD_PREDICATE", NULL, 2, 3, 0),
       Cmd("CMD_PIO_WRITE_8", NULL, BIT_V(rirbsts_intfl), 0, 0),
       Cmd("CMD_ACCEPT", NULL, 0, 0, 0) >>

\* hdaudio_irq_code: the ranges and commands of the two global arrays.
hdaudio_irq_code(ranges, cmds) == [ranges |-> ranges, cmds |-> cmds]

(***************************************************************************)
(* kbd.c: the msim keyboard's list, one byte read of 0xB0000000.           *)
(***************************************************************************)
msim_cmds == << Cmd("CMD_MEM_READ_1", <<45056, 0>>, 0, 0, 0) >>

\* Variant: the read is followed by an ACCEPT and its address is declared.
msim_kbd_accepting ==
    [ranges |-> <<[base |-> <<45056, 0>>, size |-> 1]>>,
     cmds |-> msim_cmds \o << Cmd("CMD_ACCEPT", NULL, 0, 0, 0) >>]

msim_kbd == [ranges |-> <<>>, cmds |-> msim_cmds]

\* The list a registration refers to: registration is handed a pointer to
\* the driver's irq_code_t.
CodeOf(name) ==
    IF name = "hdaudio_irq_code"
    THEN hdaudio_irq_code(hdaudio_irq_pio_ranges, hdaudio_irq_commands)
    ELSE msim_kbd

(***************************************************************************)
(* Validation of a command list at registration (specification 4.2, 8).    *)
(***************************************************************************)
\* Scratch slots a command reads, and the slot it writes.
SrcSlots(c) ==
    IF c.cmd \in {"CMD_AND", "CMD_PREDICATE", "CMD_PIO_WRITE_A_8"}
    THEN {c.srcarg} ELSE {}

DstSlots(c) ==
    IF c.cmd \in ReadCmds \cup {"CMD_AND"} THEN {c.dstarg} ELSE {}

ScratchBackward(cmds) ==
    \A i \in 1 .. Len(cmds) :
        SrcSlots(cmds[i]) \subseteq
            UNION {DstSlots(cmds[j]) : j \in 1 .. (i - 1)}

EndsInTerminal(cmds) ==
    Len(cmds) > 0 /\ cmds[Len(cmds)].cmd \in TerminalCmds

\* (a - b) modulo 2^32, as a pair of halves.
AddrSub(a, b) ==
    LET lo == a[2] - b[2]
        borrow == IF lo < 0 THEN 1 ELSE 0
    IN  <<(a[1] - b[1] - borrow + Half) % Half, (lo + Half) % Half>>

InRange(a, r) ==
    AddrLt(AddrSub(a, r.base), <<r.size \div Half, r.size % Half>>)

AddrsInRange(code) ==
    \A i \in 1 .. Len(code.cmds) :
        code.cmds[i].cmd \in ReadCmds \cup WriteCmds
            => \E k \in 1 .. Len(code.ranges) :
                   InRange(code.cmds[i].addr, code.ranges[k])

ValidCommandList(code) ==
    /\ EndsInTerminal(code.cmds)
    /\ ScratchBackward(code.cmds)
    /\ AddrsInRange(code)

(***************************************************************************)
(* The registry of interrupt lines (specification 4.5).                    *)
(***************************************************************************)
LineBound(regs, line) == \E r \in regs : r.line = line

\* Variant: a bound line is not refused.
RegisterResult_shared(regs, line, code) ==
    IF ~ValidCommandList(code) THEN InvalidCommandList ELSE EOK

RegisterResult(regs, line, code) ==
    IF ~ValidCommandList(code) THEN InvalidCommandList
    ELSE IF LineBound(regs, line) THEN LineBusy
    ELSE EOK

\* register(line, list, owner): the registrations afterwards.  A
\* registration refers to the driver's list by name; "frozen" keeps the list
\* as it was validated.
register_irq(regs, line, name, code, owner) ==
    IF RegisterResult(regs, line, code) = EOK
    THEN regs \cup {[line |-> line, owner |-> owner, code |-> name,
                     frozen |-> code]}
    ELSE regs

\* The record of a call of the registration interface: its arguments, the
\* registrations before and after it, and its answer.
RegCall(regs, line, name, code, owner) ==
    [owner |-> owner, line |-> line, code |-> name, list |-> code,
     before |-> regs, after |-> register_irq(regs, line, name, code, owner),
     result |-> RegisterResult(regs, line, code)]

NoRegCall ==
    [owner |-> "none", line |-> 0, code |-> "none",
     list |-> [ranges |-> <<>>, cmds |-> <<>>], before |-> {}, after |-> {},
     result |-> EOK]


(***************************************************************************)
(* hdaudio.c, hda_dev_add.                                                 *)
(***************************************************************************)
\* Where the first failure of a call happens ("none": nowhere).
HdaFailPoints ==
    {"none", "alloc", "sess", "res", "memcount", "pio", "irqcount", "ctl",
     "funcreate", "bind"}

\* Error codes the calls into other components may answer.
ExtErr == {EIO}

\* Lines 124-180: the value of rc at "goto error", or "continue" when the
\* call gets as far as patching the interrupt code.
HdaAddEarly(fp, rwsize, err) ==
    IF fp = "alloc" THEN ENOMEM
    ELSE IF fp = "sess" THEN ENOMEM
    ELSE IF fp = "res" THEN err
    ELSE IF fp = "memcount" THEN EINVAL
    ELSE IF rwsize < sizeof_hda_regs_t THEN EINVAL
    ELSE IF fp = "pio" THEN err
    ELSE IF fp = "irqcount" THEN EOK
    ELSE "continue"

\* Lines 183-186: the globals with the controller's addresses written in.
PatchRanges(ranges, rwbase) == [ranges EXCEPT ![1].base = rwbase]

\* Variant: the address of the WRITE is left as it was.
PatchCommands_read_only(cmds, rwbase) ==
    [cmds EXCEPT ![1].addr = AddrAdd(rwbase, rirbsts_offset)]

PatchCommands(cmds, rwbase) ==
    [cmds EXCEPT ![1].addr = AddrAdd(rwbase, rirbsts_offset),
                 ![4].addr = AddrAdd(rwbase, rirbsts_offset)]

\* Lines 199-222: the value returned once the handler is registered.
HdaAddLate(fp, err) ==
    IF fp = "ctl" THEN EIO
    ELSE IF fp = "funcreate" THEN ENOMEM
    ELSE IF fp = "bind" THEN err
    ELSE EOK

HdaNone ==
    [state |-> "none", rc |-> EOK, rwbase |-> NULL, rwsize |-> 0,
     ctl |-> "NULL", fun_a |-> "NULL"]

\* fps, sizes: the failures and the memory-range sizes the environment may
\* answer with.
hda_dev_add(d, fps, sizes) ==
    /\ hda[d].state = "none"
    /\ \E fp \in fps, rwsize \in sizes, err \in ExtErr :
        LET early == HdaAddEarly(fp, rwsize, err)
            ranged == fp \notin {"alloc", "sess", "res", "memcount"}
            soft == [HdaNone EXCEPT
                        !.rwbase = IF ranged THEN hw[d].base ELSE NULL,
                        !.rwsize = IF ranged THEN rwsize ELSE 0]
        IN  IF early # "continue"
            THEN /\ hda' = [hda EXCEPT ![d] =
                        [soft EXCEPT
                            !.state = IF early = EOK THEN "added" ELSE "failed",
                            !.rc = early]]
                 /\ UNCHANGED <<hdaudio_irq_pio_ranges, hdaudio_irq_commands,
                                irqs, regcall>>
            ELSE LET ranges == PatchRanges(hdaudio_irq_pio_ranges, hw[d].base)
                     cmds == PatchCommands(hdaudio_irq_commands, hw[d].base)
                     code == hdaudio_irq_code(ranges, cmds)
                     res == RegisterResult(irqs, hw[d].irq, code)
                     rc == IF res # EOK THEN res ELSE HdaAddLate(fp, err)
                 IN  /\ hdaudio_irq_pio_ranges' = ranges
                     /\ hdaudio_irq_commands' = cmds
                     /\ irqs' = register_irq(irqs, hw[d].irq,
                                             "hdaudio_irq_code", code, d)
                     /\ regcall' = RegCall(irqs, hw[d].irq, "hdaudio_irq_code",
                                            code, d)
                     /\ hda' = [hda EXCEPT ![d] =
                            [soft EXCEPT
                                !.state = IF rc = EOK THEN "added" ELSE "failed",
                                !.rc = rc,
                                !.ctl = IF res # EOK \/ fp = "ctl" THEN "NULL"
                                        ELSE IF rc = EOK THEN "init"
                                        ELSE "fini",
                                !.fun_a = IF res # EOK \/ fp \in {"ctl", "funcreate"}
                                          THEN "NULL"
                                          ELSE IF fp = "bind" THEN "destroyed"
                                          ELSE "bound"]]
    /\ UNCHANGED <<hw, rirbsts, kbd, unregistered, exec, rootpc, ov>>

(***************************************************************************)
(* hdaudio.c, hda_dev_remove and hda_dev_gone.                             *)
(***************************************************************************)
hda_dev_remove(d) ==
    /\ hda[d].state = "added"
    /\ \E out \in {"ok", "offline_fails", "unbind_fails"} :
        IF hda[d].fun_a = "NULL"
        THEN hda' = [hda EXCEPT ![d].state = "removed"]
        ELSE CASE out = "offline_fails" -> hda' = hda
               [] out = "unbind_fails" ->
                    hda' = [hda EXCEPT ![d].fun_a = "offline"]
               [] out = "ok" ->
                    hda' = [hda EXCEPT ![d].fun_a = "unbound",
                                       ![d].state = "removed"]
    /\ UNCHANGED <<hw, rirbsts, hdaudio_irq_pio_ranges, hdaudio_irq_commands,
                   kbd, regcall, irqs, unregistered, exec, rootpc, ov>>

hda_dev_gone(d) ==
    /\ hda[d].state = "added"
    /\ \E out \in {"ok", "unbind_fails"} :
        IF hda[d].fun_a = "NULL"
        THEN hda' = [hda EXCEPT ![d].state = "gone"]
        ELSE IF out = "unbind_fails"
        THEN hda' = hda
        ELSE hda' = [hda EXCEPT ![d].fun_a = "unbound", ![d].state = "gone"]
    /\ UNCHANGED <<hw, rirbsts, hdaudio_irq_pio_ranges, hdaudio_irq_commands,
                   kbd, regcall, irqs, unregistered, exec, rootpc, ov>>

(***************************************************************************)
(* kbd.c, kbd_arch_init: registers msim_kbd on line 2, returns 1 whatever  *)
(* the registration answers.                                               *)
(***************************************************************************)
kbd_arch_init ==
    /\ ~kbd.inited
    /\ irqs' = register_irq(irqs, kbd_irq, "msim_kbd", msim_kbd, "kbd")
    /\ regcall' = RegCall(irqs, kbd_irq, "msim_kbd", msim_kbd, "kbd")
    /\ kbd' = [inited |-> TRUE, ret |-> 1]
    /\ UNCHANGED <<hw, rirbsts, hdaudio_irq_pio_ranges, hdaudio_irq_commands,
                   hda, unregistered, exec, rootpc, ov>>


(***************************************************************************)
(* Teardown (specification 4.5): unregister removes the binding; it        *)
(* returns only when no invocation of the list is in flight on the line.   *)
(***************************************************************************)
\* Variant: unregister does not wait.
UnregisterReady_nowait(r) == TRUE

UnregisterReady(r) == ~(exec.st = "run" /\ exec.line = r.line)

unregister(owner) ==
    /\ \E r \in irqs :
        /\ r.owner = owner
        /\ UnregisterReady(r)
        /\ irqs' = irqs \ {r}
        /\ unregistered' = unregistered \cup {[line |-> r.line, owner |-> r.owner]}
    /\ UNCHANGED <<hw, rirbsts, hdaudio_irq_pio_ranges, hdaudio_irq_commands,
                   hda, kbd, regcall, exec, rootpc, ov>>

(***************************************************************************)
(* The register bus: the only registers of the machine are the RIRBSTS of  *)
(* the controllers; they behave as plain storage.                          *)
(***************************************************************************)
RirbstsAddr(d) == AddrAdd(hw[d].base, rirbsts_offset)

MemRead(a) ==
    IF \E d \in HdaDevs : RirbstsAddr(d) = a
    THEN rirbsts[CHOOSE d \in HdaDevs : RirbstsAddr(d) = a]
    ELSE 0

MemWrite(a, v) ==
    [d \in HdaDevs |-> IF RirbstsAddr(d) = a THEN v ELSE rirbsts[d]]

(***************************************************************************)
(* Interrupt dispatch and the interpreter (specification 4.3).  One core    *)
(* services interrupts, with interrupts disabled: one invocation at a      *)
(* time; the drivers run beside it.                                        *)
(***************************************************************************)
ExecIdle ==
    [st |-> "idle", line |-> 0, owner |-> "none", code |-> "none", pc |-> 0,
     scratch |-> [i \in 0 .. 5 |-> 0], rd |-> -1, writes |-> 0,
     verdict |-> "None", final |-> -1, torn |-> FALSE, late |-> FALSE]

\* An interrupt on a line: the list bound to the line starts to execute; with
\* no binding the interrupt is spurious.
\* "torn" notes that a registration of the line had been torn down before,
\* "late" that a registration of the line had been asked for before.
Dispatch(l) ==
    LET torn == \E u \in unregistered : u.line = l
        late == l = kbd_irq /\ kbd.inited
    IN  IF LineBound(irqs, l)
        THEN LET r == CHOOSE r \in irqs : r.line = l
             IN  [ExecIdle EXCEPT !.st = "run", !.line = l, !.owner = r.owner,
                                  !.code = r.code, !.pc = 1, !.torn = torn,
                                  !.late = late]
        ELSE [ExecIdle EXCEPT !.st = "spurious", !.line = l, !.torn = torn,
                              !.late = late]

\* A controller sets its status register and raises its line.
hda_raise(d, v) ==
    /\ exec.st # "run"
    /\ rirbsts' = [rirbsts EXCEPT ![d] = v]
    /\ exec' = Dispatch(hw[d].irq)
    /\ UNCHANGED <<hw, hdaudio_irq_pio_ranges, hdaudio_irq_commands, hda, kbd,
                   regcall, irqs, unregistered, rootpc, ov>>

\* The keyboard raises its line.
kbd_raise ==
    /\ exec.st # "run"
    /\ exec' = Dispatch(kbd_irq)
    /\ UNCHANGED <<hw, rirbsts, hdaudio_irq_pio_ranges, hdaudio_irq_commands,
                   hda, kbd, regcall, irqs, unregistered, rootpc, ov>>

\* PREDICATE(scratch, expected) lets execution continue.
PredicateHolds(c, scratch) == scratch[c.srcarg] = c.value

\* The invocation ends with verdict v; the value then in the register that
\* was read is kept with it.
Terminate(e, v, regs) ==
    [e EXCEPT !.st = "done", !.verdict = v, !.final = regs, !.pc = 0,
              !.scratch = [i \in 0 .. 5 |-> 0]]

FinalOf(e, cmds, mem) ==
    IF \E i \in 1 .. Len(cmds) : cmds[i].cmd \in ReadCmds
    THEN LET i == CHOOSE i \in 1 .. Len(cmds) : cmds[i].cmd \in ReadCmds
             a == cmds[i].addr
         IN  IF \E d \in HdaDevs : RirbstsAddr(d) = a
             THEN mem[CHOOSE d \in HdaDevs : RirbstsAddr(d) = a]
             ELSE 0
    ELSE -1

\* One command of the invocation in flight.
exec_step ==
    LET e == exec
        cmds == CodeOf(e.code).cmds
    IN  /\ e.st = "run"
        /\ IF e.pc > Len(cmds)
           THEN /\ exec' =
                        Terminate(e, "NotClaimed", FinalOf(e, cmds, rirbsts))
                /\ UNCHANGED rirbsts
           ELSE LET c == cmds[e.pc]
                    next == [e EXCEPT !.pc = e.pc + 1]
                IN  CASE c.cmd \in ReadCmds ->
                           /\ exec' =
                                  [next EXCEPT !.scratch[c.dstarg] = MemRead(c.addr),
                                               !.rd = MemRead(c.addr)]
                           /\ UNCHANGED rirbsts
                      [] c.cmd = "CMD_AND" ->
                           /\ exec' =
                                  [next EXCEPT !.scratch[c.dstarg] =
                                      BitAnd(e.scratch[c.srcarg], c.value)]
                           /\ UNCHANGED rirbsts
                      [] c.cmd = "CMD_PREDICATE" ->
                           /\ exec' =
                                  IF PredicateHolds(c, e.scratch) THEN next
                                  ELSE Terminate(e, "NotClaimed",
                                                 FinalOf(e, cmds, rirbsts))
                           /\ UNCHANGED rirbsts
                      [] c.cmd \in WriteCmds ->
                           /\ rirbsts' = MemWrite(c.addr, c.value)
                           /\ exec' =
                                  [next EXCEPT !.writes = e.writes + 1]
                      [] c.cmd = "CMD_PIO_WRITE_A_8" ->
                           /\ rirbsts' = MemWrite(c.addr, e.scratch[c.srcarg])
                           /\ exec' =
                                  [next EXCEPT !.writes = e.writes + 1]
                      [] c.cmd = "CMD_ACCEPT" ->
                           /\ exec' =
                                  Terminate(e, "Claimed", FinalOf(e, cmds, rirbsts))
                           /\ UNCHANGED rirbsts
                      [] c.cmd = "CMD_DECLINE" ->
                           /\ exec' =
                                  Terminate(e, "NotClaimed", FinalOf(e, cmds, rirbsts))
                           /\ UNCHANGED rirbsts
        /\ UNCHANGED <<hw, hdaudio_irq_pio_ranges, hdaudio_irq_commands, hda,
                       kbd, regcall, irqs, unregistered, rootpc, ov>>

(***************************************************************************)
(* rootpc.c.                                                               *)
(***************************************************************************)
RootpcFailPoints == {"none", "fun_create", "match_id", "bind"}

\* rootpc_add_fun: TRUE when the function was created, matched and bound.
rootpc_add_fun(fp) == fp = "none"

\* rootpc_add_functions: adds the one function "pci0".
rootpc_add_functions(fp) == rootpc_add_fun(fp)

\* The function node rootpc_add_fun leaves behind.
RootpcFnode(fp) ==
    IF fp = "none" THEN "bound"
    ELSE IF fp = "fun_create" THEN "NULL"
    ELSE "destroyed"

\* rootpc_add_device: the value returned.
rootpc_add_device_rc(fp) == EOK

rootpc_add_device ==
    /\ rootpc.state = "idle"
    /\ \E fp \in RootpcFailPoints :
        rootpc' = [state |-> "returned",
                   added |-> rootpc_add_functions(fp),
                   pci0 |-> RootpcFnode(fp),
                   ret |-> rootpc_add_device_rc(fp)]
    /\ UNCHANGED <<drv_vars, ov>>

(***************************************************************************)
(* macros.h, overlaps(), on words of WordBits bits.                        *)
(***************************************************************************)
Word == 0 .. (2 ^ WordBits - 1)

overlaps(s1, sz1, s2, sz2) ==
    LET e1 == (s1 + sz1) % (2 ^ WordBits)
        e2 == (s2 + sz2) % (2 ^ WordBits)
    IN  (s1 < e2) /\ (s2 < e1)

call_overlaps ==
    /\ ~ov.called
    /\ ov' = [ov EXCEPT !.called = TRUE,
                        !.result = overlaps(ov.s1, ov.sz1, ov.s2, ov.sz2)]
    /\ UNCHANGED <<drv_vars, rootpc>>

(***************************************************************************)
(* Initial states and specifications.                                      *)
(***************************************************************************)
\* The controllers have distinct register windows; a line may be shared.
HwConfigs ==
    {h \in [HdaDevs -> [base : Bases, irq : HdaLines]] :
        \A d1, d2 \in HdaDevs : d1 # d2 => h[d1].base # h[d2].base}

InitDrv(configs) ==
    /\ hw \in configs
    /\ rirbsts = [d \in HdaDevs |-> 0]
    /\ hdaudio_irq_pio_ranges = hdaudio_irq_pio_ranges_init
    /\ hdaudio_irq_commands = hdaudio_irq_commands_init
    /\ hda = [d \in HdaDevs |-> HdaNone]
    /\ kbd = [inited |-> FALSE, ret |-> 0]
    /\ regcall = NoRegCall
    /\ irqs = {}
    /\ unregistered = {}
    /\ exec = ExecIdle

RootpcIdle == [state |-> "idle", added |-> FALSE, pci0 |-> "NULL", ret |-> EOK]

OvIdle ==
    [s1 |-> 0, sz1 |-> 0, s2 |-> 0, sz2 |-> 0, called |-> FALSE,
     result |-> FALSE]

\* The drivers' life cycle against the registry of interrupt lines, with
\* every failure the drivers' environment can answer with.  Interrupts are
\* left out.
Init ==
    /\ InitDrv(HwConfigs)
    /\ rootpc = RootpcIdle
    /\ ov = OvIdle

Next ==
    \/ \E d \in HdaDevs : hda_dev_add(d, HdaFailPoints, Sizes)
    \/ \E d \in HdaDevs : hda_dev_remove(d)
    \/ \E d \in HdaDevs : hda_dev_gone(d)
    \/ kbd_arch_init
    \/ \E o \in Owners : unregister(o)

Spec == Init /\ [][Next]_vars

\* The same with interrupts: the controllers and the keyboard raise their
\* lines and the interpreter runs command by command.  The controllers'
\* windows are fixed (they share line 5, or the second one has line 11) and
\* the memory range has the size of the register block.
IrqConfigs ==
    {h \in HwConfigs : /\ h["hda0"].base = <<65215, 0>>
                       /\ h["hda0"].irq = 5
                       /\ h["hda1"].base = <<1, 0>>}

InitIrq ==
    /\ InitDrv(IrqConfigs)
    /\ rootpc = RootpcIdle
    /\ ov = OvIdle

NextIrq ==
    \/ \E d \in HdaDevs : hda_dev_add(d, HdaFailPoints, {sizeof_hda_regs_t})
    \/ \E d \in HdaDevs : hda_dev_remove(d)
    \/ \E d \in HdaDevs : hda_dev_gone(d)
    \/ kbd_arch_init
    \/ \E o \in Owners : unregister(o)
    \/ \E d \in HdaDevs, v \in RegVals : hda_raise(d, v)
    \/ kbd_raise
    \/ exec_step

SpecIrq == InitIrq /\ [][NextIrq]_vars

\* The platform driver and overlaps(), on their own.
InitUtil ==
    /\ InitDrv({h \in IrqConfigs : h["hda1"].irq = 5})
    /\ rootpc = RootpcIdle
    /\ ov \in [s1 : Word, sz1 : Word, s2 : Word, sz2 : Word,
               called : {FALSE}, result : {FALSE}]

NextUtil ==
    \/ rootpc_add_device
    \/ call_overlaps

SpecUtil == InitUtil /\ [][NextUtil]_vars


(***************************************************************************)
(* Properties.                                                             *)
(***************************************************************************)
\* Executions of the HD-Audio list that have ended.
HdaDone == exec.st = "done" /\ exec.code = "hdaudio_irq_code"

\* Mask of the AND and expected value of the PREDICATE of a list.
MaskOf(cmds) ==
    cmds[CHOOSE i \in 1 .. Len(cmds) : cmds[i].cmd = "CMD_AND"].value

ExpectedOf(cmds) ==
    cmds[CHOOSE i \in 1 .. Len(cmds) : cmds[i].cmd = "CMD_PREDICATE"].value

\* C1: executing hdaudio_irq_commands against a RIRBSTS that reads 0x01 (the
\* interrupt-flag mask) ends with verdict Claimed, exactly one register
\* write, and the register holding 0x01.
C1_ClaimedOnInterruptFlag ==
    (HdaDone /\ exec.rd = BIT_V(rirbsts_intfl))
        => /\ exec.verdict = "Claimed"
           /\ exec.writes = 1
           /\ exec.final = BIT_V(rirbsts_intfl)

\* C2: predicate short-circuit.  An execution of the HD-Audio list whose
\* masked register value differs from what the PREDICATE expects ends with
\* verdict NotClaimed and has performed no write; in particular so does every
\* execution that read 0x00.
C2_PredicateShortCircuit ==
    HdaDone =>
        /\ BitAnd(exec.rd, MaskOf(hdaudio_irq_commands))
                # ExpectedOf(hdaudio_irq_commands)
            => (exec.verdict = "NotClaimed" /\ exec.writes = 0)
        /\ exec.rd = 0
            => (exec.verdict = "NotClaimed" /\ exec.writes = 0)

C2_Witness ==
    /\ HdaDone
    /\ exec.rd = 0
    /\ exec.verdict = "NotClaimed"
    /\ exec.writes = 0

\* C3: a list that does not end in ACCEPT or DECLINE is not registered: no
\* registration holds such a list, the keyboard's registration of msim_kbd on
\* line 2 is answered InvalidCommandList and leaves no registration of the
\* keyboard, and no interrupt executes msim_kbd.
C3_UnterminatedListRejected ==
    /\ \A r \in irqs : EndsInTerminal(r.frozen.cmds)
    /\ regcall.owner # "none" /\ ~EndsInTerminal(regcall.list.cmds)
        => (regcall.result = InvalidCommandList /\ regcall.after = regcall.before)
    /\ regcall.owner = "kbd" => regcall.result = InvalidCommandList
    /\ \A r \in irqs : r.owner # "kbd"
    /\ exec.code # "msim_kbd"

\* The keyboard driver is initialized and its line has then seen an
\* interrupt, which executed nothing.
C3_Witness ==
    /\ kbd.inited
    /\ regcall.owner = "kbd"
    /\ regcall.line = kbd_irq
    /\ ~LineBound(irqs, kbd_irq)
    /\ exec.st = "spurious"
    /\ exec.line = kbd_irq
    /\ exec.late

\* C4: a registered list is not mutated: as long as a registration is bound,
\* the driver's list it refers to is the list that was validated.
C4_RegisteredListFrozen ==
    \A r \in irqs : CodeOf(r.code) = r.frozen

\* C5: teardown safety.  An invocation in flight on a line runs the list of
\* the registration bound to that line, never one of a registration that
\* has been unregistered.
C5_TeardownSafety ==
    exec.st = "run" =>
        /\ \E r \in irqs : r.line = exec.line /\ r.owner = exec.owner
        /\ [line |-> exec.line, owner |-> exec.owner] \notin unregistered

\* An interrupt arrived on a line after its registration was torn down and
\* executed nothing.
C5_Witness ==
    /\ exec.st = "spurious"
    /\ exec.torn
    /\ \E u \in unregistered : u.line = exec.line /\ u.owner \in HdaDevs

\* C6: a line has at most one registration.  A register call on a bound line
\* is answered LineBusy and changes no registration; one on a free line with
\* a well-formed list succeeds and adds exactly the binding of that line to
\* that list and owner.
C6_OneRegistrationPerLine ==
    /\ \A r1, r2 \in irqs : r1.line = r2.line => r1 = r2
    /\ regcall.owner # "none" =>
        /\ LineBound(regcall.before, regcall.line)
            => (regcall.result = LineBusy /\ regcall.after = regcall.before)
        /\ (ValidCommandList(regcall.list) /\ ~LineBound(regcall.before, regcall.line))
            => /\ regcall.result = EOK
               /\ regcall.after = regcall.before \cup
                    {[line |-> regcall.line, owner |-> regcall.owner,
                      code |-> regcall.code, frozen |-> regcall.list]}

\* A second controller was refused on the line the first one is bound to.
C6_Witness ==
    /\ regcall.result = LineBusy
    /\ regcall.owner \in HdaDevs
    /\ \E r \in irqs : r.line = regcall.line /\ r.owner # regcall.owner

\* C7: in every list handed to registration each scratch slot a command
\* reads was written by a command before it; in the HD-Audio list slot 2 is
\* written by the READ before the AND reads it, and slot 3 by the AND before
\* the PREDICATE reads it.
C7_ScratchBackward ==
    regcall.owner # "none" =>
        /\ ScratchBackward(regcall.list.cmds)
        /\ regcall.owner \in HdaDevs =>
            LET c == regcall.list.cmds
            IN  /\ c[1].cmd \in ReadCmds /\ c[1].dstarg = 2
                /\ c[2].cmd = "CMD_AND" /\ c[2].srcarg = 2 /\ c[2].dstarg = 3
                /\ c[3].cmd = "CMD_PREDICATE" /\ c[3].srcarg = 3

C7_Witness ==
    /\ regcall.owner \in HdaDevs
    /\ regcall.result = EOK
    /\ \E r \in irqs : r.owner = regcall.owner

\* C8: when hda_dev_add calls register_interrupt_handler, range 0 has the
\* controller's register base and size 8192, both command addresses are that
\* base plus the offset of RIRBSTS, and every READ and WRITE address lies in
\* the declared range.
C8_AddressesInRange ==
    regcall.owner \in HdaDevs =>
        LET code == regcall.list
            base == hw[regcall.owner].base
            a == AddrAdd(base, rirbsts_offset)
        IN  /\ Len(code.ranges) = 1
            /\ code.ranges[1].base = base
            /\ code.ranges[1].size = 8192
            /\ code.cmds[1].addr = a
            /\ code.cmds[4].addr = a
            /\ AddrLe(base, a)
            /\ AddrsInRange(code)

\* The call was made for a controller whose window ends at 2^32.
C8_Witness ==
    /\ regcall.owner \in HdaDevs
    /\ hw[regcall.owner].base = <<65535, 49152>>
    /\ hda[regcall.owner].rwsize > sizeof_hda_regs_t
    /\ regcall.result = EOK

\* C9: rootpc_add_device returns an error whenever adding the platform's
\* functions failed.
C9_ErrorWhenAddFails ==
    (rootpc.state = "returned" /\ ~rootpc.added) => rootpc.ret # EOK

\* The addresses of the interval [s, s+sz), taken modulo 2^WordBits.
Interval(x, sz) == {(x + k) % (2 ^ WordBits) : k \in 0 .. (sz - 1)}

\* C10: overlaps(s1, sz1, s2, sz2) is true exactly when [s1, s1+sz1) and
\* [s2, s2+sz2) share an address.
C10_OverlapsExact ==
    ov.called =>
        (ov.result <=> (Interval(ov.s1, ov.sz1) \cap Interval(ov.s2, ov.sz2) # {}))

\* hda_dev_add returned for d through its error label: function 'a' was
\* never created, or was destroyed when binding failed.  Neither value is
\* changed by hda_dev_remove or hda_dev_gone.
HdaErrorPath(d) ==
    /\ hda[d].state # "none"
    /\ hda[d].fun_a \in {"NULL", "destroyed"}

\* C11: whenever hda_dev_add leaves through its error path the value it
\* returns differs from EOK; EOK is returned only with function 'a' created
\* and bound.
C11_ErrorPathReturnsError ==
    \A d \in HdaDevs : HdaErrorPath(d) => hda[d].rc # EOK

\* C12: when hda_dev_add fails, no interrupt registration made by that call
\* stays bound for the device.
C12_NoRegistrationAfterFailedAdd ==
    \A d \in HdaDevs :
        hda[d].state = "failed" => ~(\E r \in irqs : r.owner = d)

=============================================================================
